---- MODULE Spec2Model ----
(***************************************************************************)
(* The election core of the raft package (raft.go): newRaft, tick, Step,   *)
(* the role transitions and the vote tally, as a state machine.            *)
(*                                                                         *)
(* A node is a record with the fields of the Raft struct.  The Go methods  *)
(* are operators from a node (and their arguments) to the node they leave  *)
(* behind.  Two specifications run them:                                   *)
(*   Spec      a cluster of nodes whose host drains each outbound queue    *)
(*             into a network that may delay, reorder, duplicate and lose  *)
(*             messages;                                                   *)
(*   SpecNode  one node of a three-peer cluster driven by Tick and by Step *)
(*             with any message (any type, sender and term).               *)
(***************************************************************************)
EXTENDS Integers, Sequences, FiniteSets, TLC

VARIABLES
    raft,       \* node id -> the Raft struct of that node
    net,        \* messages the hosts have taken from the outbound queues
    leaders,    \* history: <<term, id>> of every node seen in StateLeader
    clock,      \* history: the Tick calls made so far
    last        \* history: the call that led to this state

vars == <<raft, net, leaders, clock, last>>

----------------------------------------------------------------------------
(* Bounds of the model. *)

\* A node on its own is taken up to term MaxTerm.
MaxTerm == 2

\* A node on its own is called with at most MaxPending undrained messages.
MaxPending == 0

\* The hosts of the cluster call Tick at most MaxTicks times in all.
MaxTicks == 9

----------------------------------------------------------------------------
(* Constants and configuration. *)

None == 0

StateFollower == "StateFollower"
StateCandidate == "StateCandidate"
StateLeader == "StateLeader"

ElectionTick == 2
HeartbeatTick == 1

MsgHup == "MsgHup"
MsgBeat == "MsgBeat"
MsgPropose == "MsgPropose"
MsgAppend == "MsgAppend"
MsgAppendResponse == "MsgAppendResponse"
MsgRequestVote == "MsgRequestVote"
MsgRequestVoteResponse == "MsgRequestVoteResponse"
MsgSnapshot == "MsgSnapshot"
MsgHeartbeat == "MsgHeartbeat"
MsgHeartbeatResponse == "MsgHeartbeatResponse"
MsgTransferLeader == "MsgTransferLeader"
MsgTimeoutNow == "MsgTimeoutNow"

MessageType ==
    { MsgHup, MsgBeat, MsgPropose, MsgAppend, MsgAppendResponse,
      MsgRequestVote, MsgRequestVoteResponse, MsgSnapshot, MsgHeartbeat,
      MsgHeartbeatResponse, MsgTransferLeader, MsgTimeoutNow }

\* pb.Message, with the fields the election code reads or writes.
Message(type, from, to, term, logTerm, index, reject) ==
    [ MsgType |-> type, From |-> from, To |-> to, Term |-> term,
      LogTerm |-> logTerm, Index |-> index, Reject |-> reject ]

----------------------------------------------------------------------------
(* The log view: only its last index and last term are read. *)

LastIndex(l) == l.lastIndex

LastTerm(l) == l.lastTerm

\* Storage contents a node may be started from.
Logs == { [lastIndex |-> 0, lastTerm |-> 0], [lastIndex |-> 1, lastTerm |-> 1] }

----------------------------------------------------------------------------
(* map[uint64]bool as a set of <<key, value>> pairs, one pair per key. *)

MapKeys(v) == { e[1] : e \in v }

MapPut(v, k, b) == { e \in v : e[1] # k } \cup { <<k, b>> }

\* The orders in which a range over the keys S can visit them.
RangeOrders(S) ==
    { s \in [1..Cardinality(S) -> S] :
        \A a, b \in 1..Cardinality(S) : a # b => s[a] # s[b] }

----------------------------------------------------------------------------
(* The Raft methods. *)

send(r, m) == [r EXCEPT !.msgs = Append(@, [m EXCEPT !.From = r.id])]

readMessages(r) == [r EXCEPT !.msgs = <<>>]

reset(r, term) ==
    LET r1 == IF r.Term # term
              THEN [r EXCEPT !.Term = term, !.Vote = None]
              ELSE r
    IN  [r1 EXCEPT !.Lead = 0, !.electionElapsed = 0, !.heartbeatElapsed = 0]

\* Mutant of becomeFollower: reset is given the new term.
becomeFollower_resetNewTerm(r, term, lead) ==
    [reset(r, term) EXCEPT !.Lead = lead, !.Term = term,
                           !.State = StateFollower]

becomeFollower(r, term, lead) ==
    [reset(r, r.Term) EXCEPT !.Lead = lead, !.Term = term,
                             !.State = StateFollower]

\* Mutant of becomeCandidate: the node forgets to vote for itself.
becomeCandidate_noSelfVote(r) ==
    [reset(r, r.Term + 1) EXCEPT !.State = StateCandidate, !.votes = {}]

becomeCandidate(r) ==
    [reset(r, r.Term + 1) EXCEPT !.State = StateCandidate, !.Vote = r.id,
                                 !.votes = {}]

becomeLeader(r) == [reset(r, r.Term) EXCEPT !.State = StateLeader]

\* Mutant of poll: the candidate's own vote is counted on top of the tally.
poll_ownVoteAdded(r, from, vote) ==
    IF ~vote
    THEN [r |-> r, res |-> FALSE]
    ELSE LET r1 == [r EXCEPT !.votes = MapPut(@, from, TRUE)]
         IN  [r |-> r1,
              res |-> Cardinality(MapKeys(r1.votes)) + 1
                        > Cardinality(DOMAIN r1.Prs) \div 2]

\* poll returns the node it leaves and its result.
poll(r, from, vote) ==
    IF ~vote
    THEN [r |-> r, res |-> FALSE]
    ELSE LET r1 == [r EXCEPT !.votes = MapPut(@, from, TRUE)]
         IN  [r |-> r1,
              res |-> Cardinality(MapKeys(r1.votes))
                        > 1 + (Cardinality(DOMAIN r1.Prs) \div 2)]

RECURSIVE campaignSend(_, _, _)
campaignSend(r, ord, k) ==
    IF k > Len(ord)
    THEN r
    ELSE campaignSend(
             send(r, Message(MsgRequestVote, r.id, ord[k], r.Term,
                             LastTerm(r.RaftLog), LastIndex(r.RaftLog), FALSE)),
             ord, k + 1)

\* ord: the order in which the range over r.Prs visits the peers.
campaign(r, ord) == campaignSend(becomeCandidate(r), ord, 1)

hup(r, ord) == IF r.State = StateLeader THEN r ELSE campaign(r, ord)

stepLeader(r, m) == r

stepFollower(r, m) == IF m.MsgType = MsgHup THEN becomeCandidate(r) ELSE r

stepCandidate(r, m) ==
    CASE m.MsgType = MsgHup -> r
      [] m.MsgType = MsgRequestVoteResponse ->
            LET p == poll(r, m.From, ~m.Reject)
            IN  IF p.res THEN becomeLeader(p.r) ELSE p.r
      [] m.MsgType = MsgHeartbeat -> becomeFollower(r, m.Term, m.From)
      [] m.MsgType = MsgPropose -> r
      [] OTHER -> r

\* Mutant of inLease: the election timer is not looked at.
inLease_noTimer(r) == r.Lead # None

\* The lease test of a RequestVote of a higher term.
inLease(r) == r.Lead # None /\ r.electionElapsed < r.electionTimeout

\* The case Step's first switch takes.  The two "ignored" cases return.
TermLocal == "local message"
TermHigher == "received a message with higher term"
TermLease == "ignored: lease is not expired"
TermLower == "ignored a message with lower term"
TermEqual == "same term"

\* Mutant of StepCase: a lower term is not told from the node's own.
StepCase_noLower(r, m) ==
    CASE m.Term = 0 -> TermLocal
      [] m.Term > r.Term ->
            IF m.MsgType = MsgRequestVote /\ inLease(r)
            THEN TermLease
            ELSE TermHigher
      [] OTHER -> TermEqual

StepCase(r, m) ==
    CASE m.Term = 0 -> TermLocal
      [] m.Term > r.Term ->
            IF m.MsgType = MsgRequestVote /\ inLease(r)
            THEN TermLease
            ELSE TermHigher
      [] m.Term < r.Term -> TermLower
      [] OTHER -> TermEqual

\* Step's first switch in the higher-term case that does not return.
StepHigher(r, m) ==
    IF m.MsgType = MsgAppend \/ m.MsgType = MsgHeartbeat \/ m.MsgType = MsgSnapshot
    THEN becomeFollower(r, m.Term, m.From)
    ELSE becomeFollower(r, m.Term, None)

\* Mutant of canVote: a vote already given to another candidate is not looked at.
canVote_ignoresVote(r, m) == r.Vote = m.From \/ r.Lead = None

canVote(r, m) == r.Vote = m.From \/ (r.Vote = None /\ r.Lead = None)

\* Step's second switch.
StepType(r, m, ord) ==
    CASE m.MsgType = MsgHup -> hup(r, ord)
      [] m.MsgType = MsgRequestVote ->
            IF canVote(r, m)
            THEN [send(r, Message(MsgRequestVoteResponse, r.id, m.From,
                                  r.Term, 0, 0, FALSE))
                    EXCEPT !.electionElapsed = 0, !.Vote = m.From]
            ELSE send(r, Message(MsgRequestVoteResponse, r.id, m.From,
                                 r.Term, 0, 0, TRUE))
      [] OTHER ->
            CASE r.State = StateLeader -> stepLeader(r, m)
              [] r.State = StateCandidate -> stepCandidate(r, m)
              [] r.State = StateFollower -> stepFollower(r, m)

Step(r, m, ord) ==
    CASE StepCase(r, m) = TermLease -> r
      [] StepCase(r, m) = TermLower -> r
      [] StepCase(r, m) = TermHigher -> StepType(StepHigher(r, m), m, ord)
      [] OTHER -> StepType(r, m, ord)

\* The error values Step can return.
ErrNil == "nil"
ErrProposalDropped == "raft proposal dropped"

\* Step's result: each of its return statements returns nil, and the results
\* of stepLeader, stepCandidate and stepFollower are not looked at.
StepErr(r, m) ==
    CASE StepCase(r, m) = TermLease -> ErrNil
      [] StepCase(r, m) = TermLower -> ErrNil
      [] OTHER -> ErrNil

\* Mutant of tickElection: the election starts one tick early.
tickElection_atTimeout(r, ord) ==
    LET r1 == [r EXCEPT !.electionElapsed = @ + 1]
    IN  IF r1.electionElapsed >= r1.electionTimeout
        THEN Step(r1, Message(MsgHup, r1.id, 0, 0, 0, 0, FALSE), ord)
        ELSE r1

tickElection(r, ord) ==
    LET r1 == [r EXCEPT !.electionElapsed = @ + 1]
    IN  IF r1.electionElapsed > r1.electionTimeout
        THEN Step(r1, Message(MsgHup, r1.id, 0, 0, 0, 0, FALSE), ord)
        ELSE r1

tickHeatbeat(r) == r

tick(r, ord) ==
    CASE r.State = StateFollower -> tickElection(r, ord)
      [] r.State = StateCandidate -> tickElection(r, ord)
      [] r.State = StateLeader -> tickHeatbeat(r)

\* c: the Config; c.log is what newLog reads from c.Storage.
newRaft(c) ==
    becomeFollower(
        [ id |-> c.ID, Term |-> 0, Vote |-> 0, RaftLog |-> c.log,
          Prs |-> [p \in c.peers |-> [Match |-> 0, Next |-> 0]],
          State |-> StateFollower, votes |-> {}, msgs |-> <<>>, Lead |-> 0,
          heartbeatTimeout |-> c.HeartbeatTick,
          electionTimeout |-> c.ElectionTick,
          heartbeatElapsed |-> 0, electionElapsed |-> 0 ],
        0, None)

Config(id, peers, log) ==
    [ ID |-> id, peers |-> peers, ElectionTick |-> ElectionTick,
      HeartbeatTick |-> HeartbeatTick, log |-> log ]

----------------------------------------------------------------------------
(* The history variables. *)

\* The messages a call appended to the outbound queue.
Enqueued(r, r2) == SubSeq(r2.msgs, Len(r.msgs) + 1, Len(r2.msgs))

QueueSet(r) == { r.msgs[k] : k \in DOMAIN r.msgs }

RecordLeaders(l, r2) ==
    IF r2.State = StateLeader THEN l \cup { <<r2.Term, r2.id>> } ELSE l

\* The last call: which, on which node, and the case Step's first switch took.
Call(op, i, case) == [op |-> op, node |-> i, case |-> case]

NoCall == Call("newRaft", 0, "")

\* The iteration orders a call may take.  Only campaign ranges over Prs: in
\* any other call the order is not read.
Orders(r, campaigns) ==
    IF campaigns THEN RangeOrders(DOMAIN r.Prs) ELSE { <<>> }

TickOrders(r) ==
    Orders(r, r.State # StateLeader /\ r.electionElapsed >= r.electionTimeout)

StepOrders(r, m) == Orders(r, m.MsgType = MsgHup)

----------------------------------------------------------------------------
(* Spec: a cluster of one, two or three nodes.  Each host drains its       *)
(* node's outbound queue after every call and hands the messages to the    *)
(* transport; net keeps every message ever handed over, and any of them    *)
(* may be delivered at any time, any number of times, or never.            *)

ClusterSizes == {1, 2, 3}

BootLog == [lastIndex |-> 0, lastTerm |-> 0]

Init ==
    /\ \E n \in ClusterSizes :
         raft = [i \in 1..n |-> newRaft(Config(i, 1..n, BootLog))]
    /\ net = {}
    /\ leaders = {}
    /\ last = NoCall
    /\ clock = 0

\* A call on node i returned, leaving it as r2; the host drains the queue.
Returns(i, r2) ==
    /\ raft' = [raft EXCEPT ![i] = readMessages(r2)]
    /\ net' = net \cup QueueSet(r2)
    /\ leaders' = RecordLeaders(leaders, r2)
    /\ UNCHANGED last

\* The host's clock: Tick on node i.
Tick(i) ==
    /\ clock < MaxTicks
    /\ clock' = clock + 1
    /\ \E ord \in TickOrders(raft[i]) :
       \E r2 \in { tick(raft[i], ord) } : Returns(i, r2)

\* The transport delivers m (once more): Step on its addressee.
Deliver(m) ==
    /\ m.To \in DOMAIN raft
    /\ UNCHANGED clock
    /\ \E ord \in StepOrders(raft[m.To], m) :
          \E r2 \in { Step(raft[m.To], m, ord) } : Returns(m.To, r2)

Next ==
    \/ \E i \in DOMAIN raft : Tick(i)
    \/ \E m \in net : Deliver(m)

Spec == Init /\ [][Next]_vars

----------------------------------------------------------------------------
(* SpecNode: node 1 of the peers {1, 2, 3} on its own.  Its host calls     *)
(* Tick, Step with any message, and readMessages, in any order.            *)

NodePeers == {1, 2, 3}

\* A sender is a node, and the id of a node is not 0 (Config.validate).
Senders == {1, 2, 3}

Terms == 0..MaxTerm

\* The message types whose From field Step reads: the leader to follow, the
\* candidate to vote for, the voter to count.
FromRead == {MsgAppend, MsgHeartbeat, MsgSnapshot, MsgRequestVote, MsgRequestVoteResponse}

\* Step never looks at From on the other types, so one sender stands for all.
SendersOf(t) == IF t \in FromRead THEN Senders ELSE {2}

\* The messages Step may be given.  LogTerm and Index vary on a vote request
\* and Reject on a vote response, where the specification reads them.
Inbox ==
    UNION { { Message(t, f, 1, tm, 0, 0, FALSE) : f \in SendersOf(t), tm \in Terms } :
              t \in MessageType \ {MsgRequestVote, MsgRequestVoteResponse} }
    \cup { Message(MsgRequestVote, f, 1, tm, l.lastTerm, l.lastIndex, FALSE) :
              f \in Senders, tm \in Terms, l \in Logs }
    \cup { Message(MsgRequestVoteResponse, f, 1, tm, 0, 0, rej) :
              f \in Senders, tm \in Terms, rej \in BOOLEAN }

InitNode ==
    /\ \E l \in Logs : raft = [i \in {1} |-> newRaft(Config(1, NodePeers, l))]
    /\ net = {}
    /\ leaders = {}
    /\ clock = 0
    /\ last = NoCall

Callable(i) == Len(raft[i].msgs) <= MaxPending

\* A call on node i returned, leaving it as r2.
ReturnsNode(i, r2, op, case) ==
    /\ r2.Term <= MaxTerm
    /\ raft' = [raft EXCEPT ![i] = r2]
    /\ leaders' = RecordLeaders(leaders, r2)
    /\ last' = Call(op, i, case)
    /\ UNCHANGED <<net, clock>>

TickNode(i) ==
    /\ Callable(i)
    /\ \E ord \in TickOrders(raft[i]) :
          \E r2 \in { tick(raft[i], ord) } : ReturnsNode(i, r2, "Tick", "")

StepNode(i, m) ==
    /\ Callable(i)
    /\ \E ord \in StepOrders(raft[i], m) :
          \E r2 \in { Step(raft[i], m, ord) } : ReturnsNode(i, r2, "Step", StepCase(raft[i], m))

ReadMessages(i) ==
    /\ raft[i].msgs # <<>>
    /\ raft' = [raft EXCEPT ![i] = readMessages(raft[i])]
    /\ last' = Call("readMessages", i, "")
    /\ UNCHANGED <<net, leaders, clock>>

NextNode ==
    \/ \E i \in DOMAIN raft : TickNode(i)
    \/ \E i \in DOMAIN raft : \E m \in Inbox : StepNode(i, m)
    \/ \E i \in DOMAIN raft : ReadMessages(i)

SpecNode == InitNode /\ [][NextNode]_vars

----------------------------------------------------------------------------
(* Claims C1 - C10. *)

IsGrant(m) == m.MsgType = MsgRequestVoteResponse /\ ~m.Reject

IsVoteRequest(m) == m.MsgType = MsgRequestVote

\* C1: election safety.  Of the nodes ever seen in StateLeader, two that were
\* leader in the same term are the same node.
C1_ElectionSafety ==
    \A a, b \in leaders : a[1] = b[1] => a[2] = b[2]

\* A leader has been elected although another node campaigned as well.
C1_Witness ==
    \E i \in DOMAIN raft :
        /\ raft[i].State = StateLeader
        /\ \E m \in net : IsVoteRequest(m) /\ m.From # i

\* C2: no Tick and no Step, whatever the message, lowers the node's Term.
C2_TermMonotone ==
    [][\A i \in DOMAIN raft : raft'[i].Term >= raft[i].Term]_vars

\* C3 as stated: a node enqueues at most one granting vote response per
\* term.  A Step that enqueues one finds none of that node and term among
\* the messages the node has sent before.
C3_OneGrantPerTerm ==
    [][\A m \in net :
          Deliver(m) =>
            \A g \in { x \in QueueSet(Step(raft[m.To], m, <<>>)) : IsGrant(x) } :
               ~ \E x \in net : IsGrant(x) /\ x.From = g.From /\ x.Term = g.Term]_vars

\* C3 as amended: the granting vote responses a node has sent with one term
\* are all addressed to the same candidate.
C3_OneGranteePerTerm ==
    \A x, y \in net :
        (IsGrant(x) /\ IsGrant(y) /\ x.From = y.From /\ x.Term = y.Term)
            => x.To = y.To

\* A node asked by two candidates of one term granted one and denied the other.
C3_Witness ==
    \E x, y \in net :
        /\ IsGrant(x)
        /\ y.MsgType = MsgRequestVoteResponse /\ y.Reject
        /\ x.From = y.From /\ x.Term = y.Term /\ x.To # y.To

\* The candidate's log (m.LogTerm, m.Index) is at least as up-to-date as l.
UpToDate(m, l) ==
    \/ m.LogTerm > l.lastTerm
    \/ (m.LogTerm = l.lastTerm /\ m.Index >= l.lastIndex)

\* C4: a RequestVote of the node's own term is answered with one
\* RequestVoteResponse carrying the node's Term, with Reject = false exactly
\* when the node can vote for the sender and the sender's log is at least as
\* up-to-date as its own; a grant sets Vote and zeroes electionElapsed.
C4_GrantIffUpToDate ==
    [][\A i \in DOMAIN raft : \A m \in Inbox :
          ( /\ IsVoteRequest(m)
            /\ m.Term > 0 /\ m.Term = raft[i].Term
            /\ StepNode(i, m) )
          =>
            LET grant == /\ \/ raft[i].Vote = m.From
                            \/ (raft[i].Vote = None /\ raft[i].Lead = None)
                         /\ UpToDate(m, raft[i].RaftLog)
                q == Enqueued(raft[i], raft'[i])
            IN  /\ Len(q) = 1
                /\ q[1].MsgType = MsgRequestVoteResponse
                /\ q[1].To = m.From
                /\ q[1].Term = raft'[i].Term
                /\ q[1].Reject = ~grant
                /\ grant => /\ raft'[i].Vote = m.From
                            /\ raft'[i].electionElapsed = 0]_vars

\* C5: an Append, Heartbeat or Snapshot of a higher term leaves the node a
\* Follower of the sender at that term, with no vote and a fresh timer.
C5_HigherTermStepDown ==
    [][\A i \in DOMAIN raft : \A m \in Inbox :
          ( /\ m.MsgType \in {MsgAppend, MsgHeartbeat, MsgSnapshot}
            /\ m.Term > raft[i].Term
            /\ StepNode(i, m) )
          =>
            /\ raft'[i].State = StateFollower
            /\ raft'[i].Term = m.Term
            /\ raft'[i].Lead = m.From
            /\ raft'[i].Vote = None
            /\ raft'[i].electionElapsed = 0]_vars

\* The peers whose grant the candidate has recorded, with the candidate itself.
Granted(r) == { e[1] : e \in { x \in r.votes : x[2] } } \cup { r.id }

\* C6: a node is not left a Candidate once the votes granted to it, its own
\* included, exceed half of the peers: it is Leader by then.
C6_QuorumWins ==
    \A i \in DOMAIN raft :
        raft[i].State = StateCandidate
            => ~ (Cardinality(Granted(raft[i])) > Cardinality(DOMAIN raft[i].Prs) \div 2)

\* C7: a Leader knows itself as the leader and has a Progress for every peer.
C7_LeaderInvariant ==
    \A i \in DOMAIN raft :
        raft[i].State = StateLeader
            => raft[i].Lead = raft[i].id /\ DOMAIN raft \subseteq DOMAIN raft[i].Prs

\* C8: a Candidate has voted for itself and knows no leader.
C8_CandidateInvariant ==
    \A i \in DOMAIN raft :
        raft[i].State = StateCandidate
            => raft[i].Vote = raft[i].id /\ raft[i].Lead = None

\* A Candidate has just denied another node's vote request.
C8_Witness ==
    \E i \in DOMAIN raft :
        /\ raft[i].State = StateCandidate
        /\ last = Call("Step", i, TermEqual)
        /\ \E k \in DOMAIN raft[i].msgs :
              /\ raft[i].msgs[k].MsgType = MsgRequestVoteResponse
              /\ raft[i].msgs[k].Reject
              /\ raft[i].msgs[k].To # i

\* C9: Step with a RequestVote of a higher term leaves the node as it was
\* (queue included) while the node knows a leader and its election timer has
\* not run out; otherwise the node adopts the term and answers the sender.
C9_LeaseDrop ==
    \A i \in DOMAIN raft : \A m \in Inbox :
        (IsVoteRequest(m) /\ m.Term > raft[i].Term) =>
            \A ord \in StepOrders(raft[i], m) : \A r2 \in { Step(raft[i], m, ord) } :
                IF raft[i].Lead # None /\ raft[i].electionElapsed < raft[i].electionTimeout
                THEN r2 = raft[i]
                ELSE /\ r2.Term = m.Term
                     /\ Len(Enqueued(raft[i], r2)) = 1
                     /\ Enqueued(raft[i], r2)[1].MsgType = MsgRequestVoteResponse
                     /\ Enqueued(raft[i], r2)[1].To = m.From
                     /\ Enqueued(raft[i], r2)[1].Term = m.Term

\* A follower of a leader has just ignored a vote request of a higher term.
C9_Witness ==
    \E i \in DOMAIN raft :
        /\ last = Call("Step", i, TermLease)
        /\ raft[i].State = StateFollower
        /\ raft[i].Lead # None
        /\ raft[i].electionElapsed < raft[i].electionTimeout

\* C10: Step with a message of a term below the node's (and not 0) leaves
\* the node as it was: role, Term, Vote, Lead, tally, timers and queue.
C10_StaleDropped ==
    \A i \in DOMAIN raft : \A m \in Inbox :
        (0 < m.Term /\ m.Term < raft[i].Term) =>
            \A ord \in StepOrders(raft[i], m) : Step(raft[i], m, ord) = raft[i]

\* A node has just ignored a message of a lower term.
C10_Witness ==
    \E i \in DOMAIN raft :
        /\ last = Call("Step", i, TermLower)
        /\ raft[i].Term > 1

----------------------------------------------------------------------------
(* Claims C11 - C20. *)

\* The node after k calls of tick and nothing else.
RECURSIVE tickTimes(_, _, _)
tickTimes(r, k, ord) ==
    IF k = 0 THEN r ELSE tick(tickTimes(r, k - 1, ord), ord)

\* C11: a Follower or Candidate whose election timer is at 0 keeps its role
\* and Term through electionTimeout ticks; the tick after that leaves it a
\* Candidate of the next term that has voted for itself and has enqueued a
\* RequestVote of that term to every other peer.
C11_ElectionTimer ==
    \A i \in DOMAIN raft :
        (raft[i].State # StateLeader /\ raft[i].electionElapsed = 0) =>
            \A ord \in RangeOrders(DOMAIN raft[i].Prs) :
                /\ \A k \in 1..raft[i].electionTimeout :
                      /\ tickTimes(raft[i], k, ord).State = raft[i].State
                      /\ tickTimes(raft[i], k, ord).Term = raft[i].Term
                      /\ tickTimes(raft[i], k, ord).msgs = raft[i].msgs
                /\ LET r2 == tickTimes(raft[i], raft[i].electionTimeout + 1, ord)
                   IN  /\ r2.State = StateCandidate
                       /\ r2.Term = raft[i].Term + 1
                       /\ r2.Vote = raft[i].id
                       /\ \A p \in DOMAIN raft[i].Prs \ {raft[i].id} :
                             Message(MsgRequestVote, raft[i].id, p, r2.Term,
                                     LastTerm(raft[i].RaftLog),
                                     LastIndex(raft[i].RaftLog), FALSE)
                                 \in QueueSet(r2) \ QueueSet(raft[i])

\* A Candidate whose election timed out has just campaigned again.
C11_Witness ==
    \E i \in DOMAIN raft :
        /\ last = Call("Tick", i, "")
        /\ raft[i].State = StateCandidate
        /\ raft[i].Term = 2
        /\ raft[i].electionElapsed = 0
        /\ \A p \in DOMAIN raft[i].Prs \ {i} :
              \E k \in DOMAIN raft[i].msgs :
                 /\ raft[i].msgs[k].MsgType = MsgRequestVote
                 /\ raft[i].msgs[k].To = p
                 /\ raft[i].msgs[k].Term = 2

\* C12: Step with a proposal on a Follower that knows no leader, or on a
\* Candidate, returns ErrProposalDropped and leaves the node's role, Term,
\* Vote and outbound queue as they were.
C12_ProposalDropped ==
    \A i \in DOMAIN raft : \A m \in Inbox :
        ( /\ m.MsgType = MsgPropose
          /\ m.Term = 0 \/ m.Term = raft[i].Term
          /\ \/ raft[i].State = StateFollower /\ raft[i].Lead = None
             \/ raft[i].State = StateCandidate )
        =>
            \A ord \in StepOrders(raft[i], m) : \A r2 \in { Step(raft[i], m, ord) } :
                /\ StepErr(raft[i], m) = ErrProposalDropped
                /\ r2.State = raft[i].State
                /\ r2.Term = raft[i].Term
                /\ r2.Vote = raft[i].Vote
                /\ r2.msgs = raft[i].msgs

\* C13: a Tick on a Leader adds 1 to heartbeatElapsed; when that exceeds
\* heartbeatTimeout the Leader enqueues a Heartbeat to every other peer and
\* heartbeatElapsed is back at 0.
C13_HeartbeatTimer ==
    \A i \in DOMAIN raft :
        raft[i].State = StateLeader =>
            LET r2 == tick(raft[i], <<>>)
            IN  IF raft[i].heartbeatElapsed + 1 > raft[i].heartbeatTimeout
                THEN /\ r2.heartbeatElapsed = 0
                     /\ \A p \in DOMAIN raft[i].Prs \ {raft[i].id} :
                           \E k \in DOMAIN Enqueued(raft[i], r2) :
                              /\ Enqueued(raft[i], r2)[k].MsgType = MsgHeartbeat
                              /\ Enqueued(raft[i], r2)[k].To = p
                ELSE /\ r2.heartbeatElapsed = raft[i].heartbeatElapsed + 1
                     /\ Enqueued(raft[i], r2) = <<>>

\* C14: of two Candidates of one term that have each voted for themselves,
\* each answers the other's RequestVote of that term with one
\* RequestVoteResponse with Reject = true and stays a Candidate of that term.
C14_SplitVote ==
    \A i, j \in DOMAIN raft :
        ( /\ i # j
          /\ raft[i].State = StateCandidate /\ raft[j].State = StateCandidate
          /\ raft[i].Term = raft[j].Term
          /\ raft[i].Vote = i /\ raft[j].Vote = j )
        =>
            \A m \in net :
                ( /\ IsVoteRequest(m)
                  /\ m.From = j /\ m.To = i /\ m.Term = raft[i].Term )
                =>
                    LET r2 == Step(raft[i], m, <<>>)
                    IN  /\ Enqueued(raft[i], r2)
                             = << Message(MsgRequestVoteResponse, i, j,
                                          raft[i].Term, 0, 0, TRUE) >>
                        /\ r2.State = StateCandidate
                        /\ r2.Term = raft[i].Term
                        /\ r2.votes = raft[i].votes

\* Two Candidates of one term have denied each other and are Candidates still.
C14_Witness ==
    \E i, j \in DOMAIN raft :
        /\ i # j
        /\ raft[i].State = StateCandidate /\ raft[j].State = StateCandidate
        /\ raft[i].Term = raft[j].Term
        /\ Message(MsgRequestVoteResponse, i, j, raft[i].Term, 0, 0, TRUE) \in net
        /\ Message(MsgRequestVoteResponse, j, i, raft[i].Term, 0, 0, TRUE) \in net

\* C15: right after becomeCandidate the node has voted for itself, its tally
\* records its own vote as granted, and the tally holds no other peer's vote.
C15_SelfVoteTallied ==
    \A i \in DOMAIN raft :
        LET r2 == becomeCandidate(raft[i])
        IN  /\ r2.Vote = raft[i].id
            /\ <<raft[i].id, TRUE>> \in r2.votes
            /\ MapKeys(r2.votes) \subseteq {raft[i].id}

\* C16: the Step that takes a Candidate to Leader keeps Term and Vote, sets
\* every peer's Progress to Next = lastIndex + 1 and Match = 0 (its own Match
\* to lastIndex), appends an entry of its term at lastIndex + 1 and enqueues
\* an Append to every other peer.
C16_LeaderInit ==
    \A i \in DOMAIN raft : \A m \in Inbox :
        (raft[i].State = StateCandidate /\ IsGrant(m)) =>
            LET r2 == Step(raft[i], m, <<>>)
                li == LastIndex(raft[i].RaftLog)
            IN  r2.State = StateLeader =>
                    /\ r2.Term = raft[i].Term
                    /\ r2.Vote = raft[i].Vote
                    /\ \A p \in DOMAIN r2.Prs :
                          /\ r2.Prs[p].Next = li + 1
                          /\ r2.Prs[p].Match = IF p = raft[i].id THEN li ELSE 0
                    /\ LastIndex(r2.RaftLog) = li + 1
                    /\ LastTerm(r2.RaftLog) = r2.Term
                    /\ \A p \in DOMAIN r2.Prs \ {raft[i].id} :
                          \E k \in DOMAIN Enqueued(raft[i], r2) :
                             /\ Enqueued(raft[i], r2)[k].MsgType = MsgAppend
                             /\ Enqueued(raft[i], r2)[k].To = p

\* The peers whose denial the tally records.
Denied(r) == { e[1] : e \in { x \in r.votes : ~x[2] } }

\* C17: a Candidate given a RequestVoteResponse of its term with
\* Reject = true records the denial in its tally, and once more than half of
\* the peers have denied it is a Follower of its term that knows no leader.
C17_LostElection ==
    \A i \in DOMAIN raft : \A m \in Inbox :
        ( /\ raft[i].State = StateCandidate
          /\ m.MsgType = MsgRequestVoteResponse /\ m.Reject
          /\ m.Term = raft[i].Term )
        =>
            LET r2 == Step(raft[i], m, <<>>)
            IN  /\ <<m.From, FALSE>> \in r2.votes
                /\ Cardinality(Denied(r2)) > Cardinality(DOMAIN r2.Prs) \div 2
                      => /\ r2.State = StateFollower
                         /\ r2.Term = raft[i].Term
                         /\ r2.Lead = None

\* C18: a Candidate given an Append, a Heartbeat or a Snapshot of its own
\* term is left a Follower of the sender at that term.
C18_CandidateYields ==
    \A i \in DOMAIN raft : \A m \in Inbox :
        ( /\ raft[i].State = StateCandidate
          /\ m.MsgType \in {MsgAppend, MsgHeartbeat, MsgSnapshot}
          /\ m.Term = raft[i].Term )
        =>
            LET r2 == Step(raft[i], m, <<>>)
            IN  /\ r2.State = StateFollower
                /\ r2.Term = m.Term
                /\ r2.Lead = m.From

\* The call that leads to the next state ran becomeCandidate on node i.
Campaigned(i) ==
    /\ raft'[i].State = StateCandidate
    /\ raft[i].State # StateCandidate \/ raft'[i].Term # raft[i].Term

\* C19: from the call in which a node campaigns, every Tick and Step leaves
\* its Vote at its own id, whatever its term and role, and enqueues no
\* RequestVoteResponse with Reject = false to another peer.
C19_VoteSticks ==
    [][\A i \in DOMAIN raft :
          (raft[i].Vote = raft[i].id \/ Campaigned(i)) =>
              /\ raft'[i].Vote = raft[i].id
              /\ \A k \in DOMAIN Enqueued(raft[i], raft'[i]) :
                    IsGrant(Enqueued(raft[i], raft'[i])[k])
                        => Enqueued(raft[i], raft'[i])[k].To = raft[i].id]_vars

\* A node that was Leader of term 1 has stepped down to term 2 with its Vote
\* still its own id, and has denied the vote request that took it there.
C19_Witness ==
    \E i \in DOMAIN raft :
        /\ <<1, i>> \in leaders
        /\ last = Call("Step", i, TermHigher)
        /\ raft[i].State = StateFollower
        /\ raft[i].Term = 2
        /\ raft[i].Vote = i
        /\ \E k \in DOMAIN raft[i].msgs :
              /\ raft[i].msgs[k].MsgType = MsgRequestVoteResponse
              /\ raft[i].msgs[k].Reject
              /\ raft[i].msgs[k].To # i
              /\ raft[i].msgs[k].Term = 2

\* The peers whose grant the tally records.
Granters(r) == { e[1] : e \in { x \in r.votes : x[2] } }

\* C20: a node becomes Leader only as a Candidate, in the Step of a
\* RequestVoteResponse with Reject = false, and with grants of more than
\* 1 + N/2 distinct senders in its tally (N peers); and no node of a cluster
\* of one or two peers is ever Leader.
C20_LeaderNeedsGrants ==
    /\ [][\A i \in DOMAIN raft :
              (raft[i].State # StateLeader /\ raft'[i].State = StateLeader) =>
                  /\ raft[i].State = StateCandidate
                  /\ \E m \in net :
                        /\ IsGrant(m) /\ m.To = i
                        /\ raft'[i] = readMessages(Step(raft[i], m, <<>>))
                  /\ Cardinality(Granters(raft'[i]))
                        > 1 + (Cardinality(DOMAIN raft[i].Prs) \div 2)]_vars
    /\ [](Cardinality(DOMAIN raft) <= 2 =>
             \A i \in DOMAIN raft : raft[i].State # StateLeader)

\* In the cluster of three a node is Leader with the grants of all three in
\* its tally: its own, come back to it, and those of the two others.
C20_Witness ==
    \E i \in DOMAIN raft :
        /\ Cardinality(DOMAIN raft) = 3
        /\ raft[i].State = StateLeader
        /\ Granters(raft[i]) = DOMAIN raft[i].Prs
        /\ \A j \in DOMAIN raft :
              Message(MsgRequestVoteResponse, j, i, raft[i].Term, 0, 0, FALSE) \in net

====
